---- MODULE Spec2Model ----
(***************************************************************************)
(* Hiking-Blog (src/server.js): an Express application over two SQLite     *)
(* tables, users and posts, with a per-cookie session.  Every route        *)
(* handler is an async function; between two awaits another request may    *)
(* run, so a handler is modelled as a sequence of steps, one per access to *)
(* the database or to the session, held in a request slot.                 *)
(***************************************************************************)
EXTENDS Integers, Sequences, FiniteSets, TLC

(* ----------------------------- bounds ---------------------------------- *)
\* AUTOINCREMENT post ids handed out (two of them go to the sample posts)
MaxPostId == 3
\* like count up to which POST /like requests are still issued
MaxLikes == 2
\* length of the usernames getFirstLetter is examined on
MaxNameLen == 3
\* hashedGoogleId of a new user is drawn from 0..MaxHashedId
MaxHashedId == 1
\* requests issued in one behaviour
MaxRequests == 4

(* ----------------------------- values ---------------------------------- *)
\* JavaScript undefined: a missing body field, a cleared session field
Undefined == "undefined"
\* session.userId when undefined; row ids start at 1, so 0 is never an id
NoId == 0

\* request slots: two requests can be in flight at the same time
Slots == {1, 2}
Sessions == {1, 2}

\* usernames submitted with POST /register and POST /login
UserNames == {"SampleUser", "AnotherUser", "bob", Undefined}

\* bodies submitted with POST /posts
Bodies ==
    { [title |-> "Trail", content |-> "Steep"],
      [title |-> Undefined, content |-> "Steep"] }

\* characters of the usernames getFirstLetter is examined on, as character
\* codes: 1 A Z [ _ a z
CharCodes == {49, 65, 90, 91, 95, 97, 122}

\* the characters of a username, as character codes
Chars(username) ==
    CASE username = "SampleUser"  -> <<83, 97, 109, 112, 108, 101, 85, 115, 101, 114>>
      [] username = "AnotherUser" -> <<65, 110, 111, 116, 104, 101, 114, 85, 115, 101, 114>>
      [] username = "bob"         -> <<98, 111, 98>>
      [] OTHER                    -> <<>>

(* ------------------------ pure helper functions ------------------------ *)
\* the regular expression /[a-zA-z]/ : a-z, and the code range from A to z
IsRegExpLetter(c) == (c >= 97 /\ c <= 122) \/ (c >= 65 /\ c <= 122)

RECURSIVE FirstMatch(_, _)
FirstMatch(s, i) ==
    IF i > Len(s) THEN 0
    ELSE IF IsRegExpLetter(s[i]) THEN s[i]
    ELSE FirstMatch(s, i + 1)

\* getFirstLetter on the characters of its argument: the first match, or
\* 'A' (65) when there is none
getFirstLetterOf(chars) ==
    IF FirstMatch(chars, 1) # 0
    THEN FirstMatch(chars, 1)
    ELSE 65

\* getFirstLetter
getFirstLetter(username) == getFirstLetterOf(Chars(username))

\* String.prototype.toUpperCase on one character code
toUpperCase(c) == IF c >= 97 /\ c <= 122 THEN c - 32 ELSE c

\* generateAvatar: a width x height PNG showing the upper-cased letter
generateAvatar(letter) ==
    [letter |-> toUpperCase(letter), width |-> 100, height |-> 100]

\* getDate: year, getMonth() (from 0), getDay() (day of the week), two
\* blanks, hours and minutes, unpadded.  The clock is not a variable of the
\* model: every call yields the string of one instant (a Wednesday in June
\* 2024, 10:30)
getDate == "2024-5-3  10:30"

(* ------------------------------ responses ------------------------------ *)
Home == "/"
RegisterPage == "/register"
AlreadyRegistered == "/register?error=Already%20Registered"
LoginPage == "/login"
NotFound == "/login?error=Not%20Found"
InternalServerError == "/login?error=Internal%20Server%20Error"
ErrorPage == "/error"

(* ------------------------------ state ---------------------------------- *)
VARIABLES
    users,      \* users table: sequence of rows, users[i].id = i
    posts,      \* posts table: function from the ids of the stored rows
    postSeq,    \* sqlite_sequence of posts: the largest id handed out
    session,    \* session[s]: the fields of session s
    req,        \* req[r]: the request in slot r
    sent,       \* the response sent by the latest step (NoResponse: none),
                \* and the error that request logged with console.error
    issued,     \* number of requests issued so far
    nameChars,  \* getFirstLetter examined on its own: the characters of
                \* the username it is called with
    firstLetter \* and the character it returned (NotCalled before the call)

vars == <<users, posts, postSeq, session, req, sent, issued, nameChars,
          firstLetter>>

\* a session nobody has logged in to
NoSession == [userId |-> NoId, loggedIn |-> FALSE, username |-> Undefined]

\* an empty request slot.  pc: the step the handler is at; sess: the session
\* the cookie names; session: req.session; name: body.userName; id:
\* params.id; title, content: the body of POST /posts; likes: post.likes as
\* read by updatePostLikes; user: the id of the row getCurrentUser returned;
\* rows: the posts getPosts returned
Idle ==
    [pc |-> "idle", sess |-> 0, session |-> NoSession, name |-> Undefined,
     id |-> 0, likes |-> 0, title |-> Undefined, content |-> Undefined,
     user |-> NoId, rows |-> <<>>]

\* what a handler passed to console.error
NoError == "none"
TypeError == "TypeError"
ConstraintError == "SQLITE_CONSTRAINT"

NoResponse == [route |-> "none", resp |-> "none", error |-> NoError]

\* firstLetter while getFirstLetter has not been called
NotCalled == 0

\* sample data inserted by initializeDB
SampleUsers ==
    << [id |-> 1, username |-> "SampleUser", hashedGoogleId |-> "hashedGoogleId1",
        avatar_url |-> generateAvatar(83), memberSince |-> "2024-01-01 12:00:00"],
       [id |-> 2, username |-> "AnotherUser", hashedGoogleId |-> "hashedGoogleId2",
        avatar_url |-> generateAvatar(65), memberSince |-> "2024-01-02 12:00:00"] >>

SamplePosts ==
    1 :> [id |-> 1, title |-> "First Post", content |-> "This is the first post",
          username |-> "SampleUser", timestamp |-> "2024-01-01 12:30:00", likes |-> 0]
    @@
    2 :> [id |-> 2, title |-> "Second Post", content |-> "This is the second post",
          username |-> "AnotherUser", timestamp |-> "2024-01-02 12:30:00", likes |-> 0]

Init ==
    /\ users = SampleUsers
    /\ posts = SamplePosts
    /\ postSeq = 2
    /\ session = [s \in Sessions |-> NoSession]
    /\ req = [r \in Slots |-> Idle]
    /\ sent = NoResponse
    /\ issued = 0
    /\ nameChars = <<>>
    /\ firstLetter = NotCalled

(* --------------------------- the two tables ---------------------------- *)
\* findUserByUsername whose query never matches
findUserByUsername_NoMatch(username) == NoId

\* findUserByUsername whose query has no WHERE clause: the first row
findUserByUsername_AnyRow(username) == IF Len(users) > 0 THEN 1 ELSE NoId

\* SELECT * FROM users WHERE username = ? : the id of the first matching
\* row, NoId when there is none (an undefined parameter is bound as NULL
\* and matches no row).  findUserByUsername returns that row, or false.
findUserByUsername(username) ==
    IF username # Undefined /\ \E i \in 1..Len(users) : users[i].username = username
    THEN CHOOSE i \in 1..Len(users) :
            /\ users[i].username = username
            /\ \A j \in 1..(i - 1) : users[j].username # username
    ELSE NoId

\* the users table declared without UNIQUE on username
UsersConstraints_NoUniqueName(username, hashedGoogleId) ==
    /\ username # Undefined
    /\ \A i \in 1..Len(users) : users[i].hashedGoogleId # hashedGoogleId

\* the constraints of the users table: username TEXT NOT NULL UNIQUE,
\* hashedGoogleId TEXT NOT NULL UNIQUE
UsersConstraints(username, hashedGoogleId) ==
    /\ username # Undefined
    /\ \A i \in 1..Len(users) :
          /\ users[i].username # username
          /\ users[i].hashedGoogleId # hashedGoogleId

\* the posts table declared without NOT NULL on username
PostsConstraints_NullableName(title, content, username) ==
    /\ title # Undefined
    /\ content # Undefined

\* the constraints of the posts table: title, content, username NOT NULL
PostsConstraints(title, content, username) ==
    /\ title # Undefined
    /\ content # Undefined
    /\ username # Undefined

\* addUser: the row it inserts (id by AUTOINCREMENT; users are never deleted)
addUser(username, random) ==
    [id |-> Len(users) + 1, username |-> username,
     hashedGoogleId |-> ToString(random),
     avatar_url |-> generateAvatar(getFirstLetter(username)),
     memberSince |-> getDate]

\* INSERT INTO users ... ON CONFLICT DO UPDATE: the row that has the
\* username or the hashedGoogleId of the new one is overwritten
OnConflict_Update(row) ==
    LET clash == {i \in 1..Len(users) :
                    \/ users[i].username = row.username
                    \/ users[i].hashedGoogleId = row.hashedGoogleId}
    IN  IF clash = {}
        THEN users
        ELSE LET k == CHOOSE i \in clash : \A j \in clash : i <= j
             IN  [users EXCEPT ![k] = [row EXCEPT !.id = k]]

\* INSERT INTO users violating a constraint: the statement is aborted and
\* the users table stays as it is
OnConflict(row) == users

\* id INTEGER PRIMARY KEY without AUTOINCREMENT: one more than the largest
\* id in the table, which hands out the id of a deleted last row again
NextPostId_MaxRowid ==
    IF DOMAIN posts = {}
    THEN 1
    ELSE (CHOOSE i \in DOMAIN posts : \A j \in DOMAIN posts : j <= i) + 1

\* id INTEGER PRIMARY KEY AUTOINCREMENT: one more than the largest id the
\* table ever held, which sqlite_sequence records
NextPostId == postSeq + 1

\* addPost inserting a post that starts with one like
addPost_OneLike(title, content, username) ==
    [id |-> NextPostId, title |-> title, content |-> content,
     username |-> username, timestamp |-> getDate, likes |-> 1]

\* addPost: the row it inserts
addPost(title, content, username) ==
    [id |-> NextPostId, title |-> title, content |-> content,
     username |-> username, timestamp |-> getDate, likes |-> 0]

\* updatePostLikes writing post.likes++ : the value before the increment
updatePostLikes_PostIncrement(likes) == likes

\* updatePostLikes: the value written by UPDATE posts SET likes = ?
updatePostLikes(likes) == likes + 1

\* UPDATE posts SET likes = ? without its WHERE clause: every row is written
UpdateLikes_NoWhere(id, likes) ==
    [i \in DOMAIN posts |-> [posts[i] EXCEPT !.likes = likes]]

\* UPDATE posts SET likes = ? WHERE id = ? : the posts table afterwards
UpdateLikes(id, likes) ==
    [i \in DOMAIN posts |->
        IF i = id THEN [posts[i] EXCEPT !.likes = likes] ELSE posts[i]]

\* isAuthenticated: session.userId is truthy
isAuthenticated(sess) == sess.userId # NoId

\* app.post('/like/:id') without its session check
LikeAllowed_Always(sess) == TRUE

\* the check of app.post('/like/:id'): session.username !== undefined
LikeAllowed(sess) == sess.username # Undefined

\* deletePost without its username check
DeleteAllowed_Anyone(post, username) == TRUE

\* the check of deletePost: post.username !== req.session.username returns
DeleteAllowed(post, username) == post.username = username

\* loginUser without req.session.loggedIn = true
loginUser_NoFlag(user) ==
    [userId |-> user.id, loggedIn |-> FALSE, username |-> user.username]

\* loginUser: the session fields it sets from the user row
loginUser(user) ==
    [userId |-> user.id, loggedIn |-> TRUE, username |-> user.username]

\* logoutUser: the session fields it clears
logoutUser == [userId |-> NoId, loggedIn |-> FALSE, username |-> Undefined]

\* app.post('/register') and app.post('/login'): the truth value of the
\* result of findUserByUsername
Found(user) == user # NoId

(* ----------------------------- requests -------------------------------- *)
\* A request takes a free slot.  express-session hands each request its own
\* copy of the session, read when the request arrives and stored back when
\* the response is sent; what a handler reads from req.session is therefore
\* what the session held on arrival.
CanIssue(r) == req[r].pc = "idle" /\ issued < MaxRequests

InFlight(pcs) == Cardinality({r \in Slots : req[r].pc \in pcs})

Respond(r, route, resp, error) ==
    /\ req' = [req EXCEPT ![r] = Idle]
    /\ sent' = [route |-> route, resp |-> resp, error |-> error]

\* POST /register, up to the answer of findUserByUsername
Register(r, name) ==
    /\ CanIssue(r)
    /\ issued' = issued + 1
    /\ IF Found(findUserByUsername(name))
       THEN Respond(r, "register", AlreadyRegistered, NoError)
       ELSE /\ req' = [req EXCEPT ![r] = [Idle EXCEPT !.pc = "register_addUser",
                                                      !.name = name]]
            /\ sent' = NoResponse
    /\ UNCHANGED <<users, posts, postSeq, session, nameChars, firstLetter>>

\* POST /register: registerUser, addUser and the redirect
RegisterAddUser(r) ==
    /\ req[r].pc = "register_addUser"
    /\ \E random \in 0..MaxHashedId :
          IF req[r].name = Undefined
          THEN \* getFirstLetter(undefined) throws inside the try block
               /\ users' = users
               /\ Respond(r, "register", RegisterPage, TypeError)
          ELSE IF UsersConstraints(req[r].name, ToString(random))
          THEN /\ users' = Append(users, addUser(req[r].name, random))
               /\ Respond(r, "register", RegisterPage, NoError)
          ELSE /\ users' = OnConflict(addUser(req[r].name, random))
               /\ Respond(r, "register", RegisterPage, ConstraintError)
    /\ UNCHANGED <<posts, postSeq, session, issued, nameChars, firstLetter>>

\* POST /login, up to the answer of findUserByUsername
Login(r, s, name) ==
    /\ CanIssue(r)
    /\ issued' = issued + 1
    /\ IF Found(findUserByUsername(name))
       THEN /\ req' = [req EXCEPT ![r] = [Idle EXCEPT !.pc = "login_loginUser",
                                                      !.sess = s, !.name = name]]
            /\ sent' = NoResponse
       ELSE Respond(r, "login", NotFound, NoError)
    /\ UNCHANGED <<users, posts, postSeq, session, nameChars, firstLetter>>

\* POST /login: loginUser (its own findUserByUsername) and the redirect
LoginUser(r) ==
    /\ req[r].pc = "login_loginUser"
    /\ LET user == findUserByUsername(req[r].name)
       IN  session' = IF Found(user)
                      THEN [session EXCEPT ![req[r].sess] = loginUser(users[user])]
                      ELSE session
    /\ Respond(r, "login", Home, NoError)
    /\ UNCHANGED <<users, posts, postSeq, issued, nameChars, firstLetter>>

\* GET /logout: synchronous
Logout(r, s) ==
    /\ CanIssue(r)
    /\ issued' = issued + 1
    /\ session' = [session EXCEPT ![s] = logoutUser]
    /\ Respond(r, "logout", Home, NoError)
    /\ UNCHANGED <<users, posts, postSeq, nameChars, firstLetter>>

\* POST /posts on arrival: getCurrentUser is called with session.username
Posts(r, s, body) ==
    /\ CanIssue(r)
    /\ postSeq + InFlight({"posts_getCurrentUser", "posts_addPost"}) < MaxPostId
    /\ issued' = issued + 1
    /\ req' = [req EXCEPT ![r] = [Idle EXCEPT !.pc = "posts_getCurrentUser",
                                              !.sess = s,
                                              !.session = session[s],
                                              !.title = body.title,
                                              !.content = body.content]]
    /\ sent' = NoResponse
    /\ UNCHANGED <<users, posts, postSeq, session, nameChars, firstLetter>>

\* POST /posts: the answer of getCurrentUser (a user row, or false)
PostsGetCurrentUser(r) ==
    /\ req[r].pc = "posts_getCurrentUser"
    /\ req' = [req EXCEPT ![r].pc = "posts_addPost",
                          ![r].user = findUserByUsername(req[r].session.username)]
    /\ sent' = NoResponse
    /\ UNCHANGED <<users, posts, postSeq, session, issued, nameChars, firstLetter>>

\* POST /posts: addPost and the redirect; user.username of false is undefined
PostsAddPost(r) ==
    /\ req[r].pc = "posts_addPost"
    /\ LET username == IF Found(req[r].user)
                       THEN users[req[r].user].username
                       ELSE Undefined
       IN  IF PostsConstraints(req[r].title, req[r].content, username)
           THEN /\ posts' = (NextPostId :> addPost(req[r].title, req[r].content, username))
                            @@ posts
                /\ postSeq' = NextPostId
                /\ Respond(r, "posts", Home, NoError)
           ELSE /\ UNCHANGED <<posts, postSeq>>
                /\ Respond(r, "posts", Home, ConstraintError)
    /\ UNCHANGED <<users, session, issued, nameChars, firstLetter>>

\* ids a client puts in /like/:id and /delete/:id
PostIds == 1..MaxPostId

\* POST /like/:id on arrival
Like(r, s, id) ==
    /\ CanIssue(r)
    /\ id \in DOMAIN posts => posts[id].likes < MaxLikes
    /\ issued' = issued + 1
    /\ IF LikeAllowed(session[s])
       THEN /\ req' = [req EXCEPT ![r] = [Idle EXCEPT !.pc = "like_get",
                                                      !.sess = s,
                                                      !.session = session[s],
                                                      !.id = id]]
            /\ sent' = NoResponse
       ELSE Respond(r, "like", Home, NoError)
    /\ UNCHANGED <<users, posts, postSeq, session, nameChars, firstLetter>>

\* updatePostLikes: SELECT * FROM posts WHERE id = ? ; post.likes of a
\* missing row throws, which is caught and logged
LikeGet(r) ==
    /\ req[r].pc = "like_get"
    /\ IF req[r].id \in DOMAIN posts
       THEN /\ req' = [req EXCEPT ![r].pc = "like_run",
                                  ![r].likes = posts[req[r].id].likes]
            /\ sent' = NoResponse
       ELSE Respond(r, "like", Home, TypeError)
    /\ UNCHANGED <<users, posts, postSeq, session, issued, nameChars, firstLetter>>

\* updatePostLikes: UPDATE posts SET likes = ? WHERE id = ? and the redirect
LikeRun(r) ==
    /\ req[r].pc = "like_run"
    /\ posts' = UpdateLikes(req[r].id, updatePostLikes(req[r].likes))
    /\ Respond(r, "like", Home, NoError)
    /\ UNCHANGED <<users, postSeq, session, issued, nameChars, firstLetter>>

\* POST /delete/:id on arrival: isAuthenticated
Delete(r, s, id) ==
    /\ CanIssue(r)
    /\ issued' = issued + 1
    /\ IF isAuthenticated(session[s])
       THEN /\ req' = [req EXCEPT ![r] = [Idle EXCEPT !.pc = "delete_get",
                                                      !.sess = s,
                                                      !.session = session[s],
                                                      !.id = id]]
            /\ sent' = NoResponse
       ELSE Respond(r, "delete", LoginPage, NoError)
    /\ UNCHANGED <<users, posts, postSeq, session, nameChars, firstLetter>>

\* deletePost: SELECT * FROM posts WHERE id = ? and the two early returns
DeleteGet(r) ==
    /\ req[r].pc = "delete_get"
    /\ IF /\ req[r].id \in DOMAIN posts
          /\ DeleteAllowed(posts[req[r].id], req[r].session.username)
       THEN /\ req' = [req EXCEPT ![r].pc = "delete_run"]
            /\ sent' = NoResponse
       ELSE Respond(r, "delete", Home, NoError)
    /\ UNCHANGED <<users, posts, postSeq, session, issued, nameChars, firstLetter>>

\* deletePost: DELETE FROM posts WHERE id = ? and the redirect
DeleteRun(r) ==
    /\ req[r].pc = "delete_run"
    /\ posts' = [i \in DOMAIN posts \ {req[r].id} |-> posts[i]]
    /\ Respond(r, "delete", Home, NoError)
    /\ UNCHANGED <<users, postSeq, session, issued, nameChars, firstLetter>>

(* ------------------------ routes that only read ------------------------ *)
\* Array.prototype.reverse
Reverse(s) == [i \in 1..Len(s) |-> s[Len(s) + 1 - i]]

\* db.all on the posts table without ORDER BY: the rows with their ids in
\* ids, in rowid order
RECURSIVE SelectFromPosts(_)
SelectFromPosts(ids) ==
    IF ids = {}
    THEN <<>>
    ELSE LET first == CHOOSE i \in ids : \A j \in ids : i <= j
         IN  <<posts[first]>> \o SelectFromPosts(ids \ {first})

\* getPosts: SELECT * FROM posts, pushed to userPosts in the order read
getPosts == SelectFromPosts(DOMAIN posts)

\* renderProfile: SELECT * FROM posts WHERE username = ?, reversed
renderProfile(username) ==
    Reverse(SelectFromPosts({i \in DOMAIN posts : posts[i].username = username}))

\* what res.send(null) sends
Null == [null |-> TRUE]

\* handleAvatar whose query has no WHERE clause: the avatar of the first row
handleAvatar_FirstRow(username) ==
    IF Len(users) > 0 THEN users[1].avatar_url ELSE Null

\* handleAvatar: the avatar_url of the row findUserByUsername returns, null
\* when there is none (avatar_url is set in every row, so the branch that
\* generates one is never taken)
handleAvatar(username) ==
    LET user == findUserByUsername(username)
    IN  IF Found(user) THEN users[user].avatar_url ELSE Null

\* res.render: the view and its data
Render(r, route, view, rows, user) ==
    /\ req' = [req EXCEPT ![r] = Idle]
    /\ sent' = [route |-> route, resp |-> view, error |-> NoError,
                posts |-> rows, user |-> user]

\* GET / on arrival
Index(r, s) ==
    /\ CanIssue(r)
    /\ issued' = issued + 1
    /\ req' = [req EXCEPT ![r] = [Idle EXCEPT !.pc = "index_getPosts",
                                                   !.sess = s,
                                                   !.session = session[s]]]
    /\ sent' = NoResponse
    /\ UNCHANGED <<users, posts, postSeq, session, nameChars, firstLetter>>

\* GET /: getPosts
IndexGetPosts(r) ==
    /\ req[r].pc = "index_getPosts"
    /\ req' = [req EXCEPT ![r].pc = "index_getCurrentUser",
                          ![r].rows = getPosts]
    /\ sent' = NoResponse
    /\ UNCHANGED <<users, posts, postSeq, session, issued, nameChars, firstLetter>>

\* GET /: getCurrentUser (false becomes {}) and res.render('home')
IndexGetCurrentUser(r) ==
    /\ req[r].pc = "index_getCurrentUser"
    /\ Render(r, "index", "home", req[r].rows,
              findUserByUsername(req[r].session.username))
    /\ UNCHANGED <<users, posts, postSeq, session, issued, nameChars, firstLetter>>

\* GET /profile on arrival: isAuthenticated
Profile(r, s) ==
    /\ CanIssue(r)
    /\ issued' = issued + 1
    /\ IF isAuthenticated(session[s])
       THEN /\ req' = [req EXCEPT ![r] = [Idle EXCEPT !.pc = "profile_getCurrentUser",
                                                      !.sess = s,
                                                      !.session = session[s]]]
            /\ sent' = NoResponse
       ELSE Respond(r, "profile", LoginPage, NoError)
    /\ UNCHANGED <<users, posts, postSeq, session, nameChars, firstLetter>>

\* GET /profile: getCurrentUser
ProfileGetCurrentUser(r) ==
    /\ req[r].pc = "profile_getCurrentUser"
    /\ req' = [req EXCEPT ![r].pc = "profile_renderProfile",
                          ![r].user = findUserByUsername(req[r].session.username)]
    /\ sent' = NoResponse
    /\ UNCHANGED <<users, posts, postSeq, session, issued, nameChars, firstLetter>>

\* GET /profile: renderProfile and res.render('profile')
ProfileRenderProfile(r) ==
    /\ req[r].pc = "profile_renderProfile"
    /\ Render(r, "profile", "profile", renderProfile(req[r].session.username),
              req[r].user)
    /\ UNCHANGED <<users, posts, postSeq, session, issued, nameChars, firstLetter>>

\* GET /avatar/:username: handleAvatar reads the users table once, then the
\* Content-Type header and res.send.  name: params.username
Avatar(r, name) ==
    /\ CanIssue(r)
    /\ issued' = issued + 1
    /\ req' = [req EXCEPT ![r] = Idle]
    /\ sent' = [route |-> "avatar", resp |-> "200", error |-> NoError,
                name |-> name, type |-> "image/png", body |-> handleAvatar(name)]
    /\ UNCHANGED <<users, posts, postSeq, session, nameChars, firstLetter>>

(* --------------------------- specification ----------------------------- *)
\* a request arrives in slot r
Arrive(r) ==
    \/ \E name \in UserNames : Register(r, name)
    \/ \E s \in Sessions, name \in UserNames : Login(r, s, name)
    \/ \E s \in Sessions : Logout(r, s)
    \/ \E s \in Sessions, body \in Bodies : Posts(r, s, body)
    \/ \E s \in Sessions, id \in PostIds : Like(r, s, id)
    \/ \E s \in Sessions, id \in PostIds : Delete(r, s, id)

\* the handler of the request in slot r resumes after an await
Resume(r) ==
    \/ RegisterAddUser(r)
    \/ LoginUser(r)
    \/ PostsGetCurrentUser(r)
    \/ PostsAddPost(r)
    \/ LikeGet(r)
    \/ LikeRun(r)
    \/ DeleteGet(r)
    \/ DeleteRun(r)

Next == \E r \in Slots : Arrive(r) \/ Resume(r)

Spec == Init /\ [][Next]_vars

\* requests handled one at a time: a request arrives only when no other
\* request is in flight
NoneInFlight == \A q \in Slots : req[q].pc = "idle"

NextSeq ==
    \E r \in Slots :
        \/ NoneInFlight /\ \E name \in UserNames : Register(r, name)
        \/ NoneInFlight /\ \E s \in Sessions, name \in UserNames : Login(r, s, name)
        \/ NoneInFlight /\ \E s \in Sessions : Logout(r, s)
        \/ NoneInFlight /\ \E s \in Sessions, body \in Bodies : Posts(r, s, body)
        \/ NoneInFlight /\ \E s \in Sessions, id \in PostIds : Like(r, s, id)
        \/ NoneInFlight /\ \E s \in Sessions, id \in PostIds : Delete(r, s, id)
        \/ Resume(r)

SpecSeq == Init /\ [][NextSeq]_vars

\* a request to a route that only reads arrives in slot r
ArriveRead(r) ==
    \/ \E s \in Sessions : Index(r, s)
    \/ \E s \in Sessions : Profile(r, s)
    \/ \E name \in UserNames \ {Undefined} : Avatar(r, name)

\* the handler of such a request resumes after an await
ResumeRead(r) ==
    \/ IndexGetPosts(r)
    \/ IndexGetCurrentUser(r)
    \/ ProfileGetCurrentUser(r)
    \/ ProfileRenderProfile(r)

\* the server with the routes that only read
NextRead == \E r \in Slots : Arrive(r) \/ Resume(r) \/ ArriveRead(r) \/ ResumeRead(r)

SpecRead == Init /\ [][NextRead]_vars

\* getFirstLetter on its own: a username is chosen, the function is called
InitLetter ==
    /\ users = SampleUsers
    /\ posts = SamplePosts
    /\ postSeq = 2
    /\ session = [s \in Sessions |-> NoSession]
    /\ req = [r \in Slots |-> Idle]
    /\ sent = NoResponse
    /\ issued = 0
    /\ nameChars \in UNION {[1..n -> CharCodes] : n \in 0..MaxNameLen}
    /\ firstLetter = NotCalled

CallGetFirstLetter ==
    /\ firstLetter = NotCalled
    /\ firstLetter' = getFirstLetterOf(nameChars)
    /\ UNCHANGED <<users, posts, postSeq, session, req, sent, issued, nameChars>>

NextLetter == CallGetFirstLetter

SpecLetter == InitLetter /\ [][NextLetter]_vars

(* ------- the variant whose routes do not await (src/unnamed/part_000) ---- *)
\* sample data inserted by initializeDB of the variant
SampleUsersNoAwait ==
    << [id |-> 1, username |-> "user1", hashedGoogleId |-> "hashedGoogleId1",
        avatar_url |-> generateAvatar(83), memberSince |-> "2024-01-01 12:00:00"],
       [id |-> 2, username |-> "user2", hashedGoogleId |-> "hashedGoogleId2",
        avatar_url |-> generateAvatar(65), memberSince |-> "2024-01-02 12:00:00"] >>

SamplePostsNoAwait ==
    1 :> [id |-> 1, title |-> "First Post", content |-> "This is the first post",
          username |-> "user1", timestamp |-> "2024-01-01 12:30:00", likes |-> 0]
    @@
    2 :> [id |-> 2, title |-> "Second Post", content |-> "This is the second post",
          username |-> "user2", timestamp |-> "2024-01-02 12:30:00", likes |-> 0]

\* let users = [...] : the array findUserById searches
UsersArray ==
    << [id |-> 1, username |-> "SampleUser", avatar_url |-> generateAvatar(83),
        memberSince |-> "2024-01-01 08:00"],
       [id |-> 2, username |-> "AnotherUser", avatar_url |-> generateAvatar(65),
        memberSince |-> "2024-01-02 09:00"] >>

\* usernames submitted to the variant: in the users table, in the array
\* only, in neither
UserNamesNoAwait == {"user1", "SampleUser", "bob"}

\* what a call of an async function returns at once: a Promise, which later
\* resolves to the value the function returns
Promise(value) == [kind |-> "promise", resolves |-> value]

\* await: the value the Promise resolves to, the row of a user or false
Await(p) ==
    IF Found(p.resolves) THEN [kind |-> "row", id |-> p.resolves]
                         ELSE [kind |-> "false"]

\* the truth value an if gives a value: false is falsy, an object (a row, a
\* Promise) is truthy
ToBoolean(v) == v.kind # "false"

\* v.id and v.username: a row has them, a Promise and false have not
IdOf(v) == IF v.kind = "row" THEN users[v.id].id ELSE NoId
UsernameOf(v) == IF v.kind = "row" THEN users[v.id].username ELSE Undefined

\* findUserByUsername of the variant, called without await
findUserByUsernameNoAwait(username) == Promise(findUserByUsername(username))

\* findUserById of the variant: a loop over the array, false when no element
\* has the id
findUserById(userId) ==
    IF \E i \in 1..Len(UsersArray) : UsersArray[i].id = userId
    THEN CHOOSE i \in 1..Len(UsersArray) : UsersArray[i].id = userId
    ELSE NoId

\* loginUser of the variant: the session fields it sets from the Promise
loginUserNoAwait(username) ==
    LET user == findUserByUsernameNoAwait(username)
    IN  [userId |-> IdOf(user), loggedIn |-> TRUE, username |-> UsernameOf(user)]

InitNoAwait ==
    /\ users = SampleUsersNoAwait
    /\ posts = SamplePostsNoAwait
    /\ postSeq = 2
    /\ session = [s \in Sessions |-> NoSession]
    /\ req = [r \in Slots |-> Idle]
    /\ sent = NoResponse
    /\ issued = 0
    /\ nameChars = <<>>
    /\ firstLetter = NotCalled

\* POST /login of the variant: synchronous
LoginNoAwait(r, s, name) ==
    /\ CanIssue(r)
    /\ issued' = issued + 1
    /\ IF ToBoolean(findUserByUsernameNoAwait(name))
       THEN /\ session' = [session EXCEPT ![s] = loginUserNoAwait(name)]
            /\ Respond(r, "login", Home, NoError)
       ELSE /\ session' = session
            /\ Respond(r, "login", NotFound, NoError)
    /\ UNCHANGED <<users, posts, postSeq, nameChars, firstLetter>>

\* GET / of the variant after getPosts: getCurrentUser is findUserById on
\* session.userId, not awaited because it is synchronous; res.render('home')
IndexRenderNoAwait(r) ==
    /\ req[r].pc = "index_getCurrentUser"
    /\ Render(r, "index", "home", req[r].rows, findUserById(req[r].session.userId))
    /\ UNCHANGED <<users, posts, postSeq, session, issued, nameChars, firstLetter>>

\* the routes of the variant that are modelled: login, logout, home and
\* avatar; logout, avatar and the first two steps of home read as in
\* server.js
NextNoAwait ==
    \E r \in Slots :
        \/ \E s \in Sessions, name \in UserNamesNoAwait : LoginNoAwait(r, s, name)
        \/ \E s \in Sessions : Logout(r, s)
        \/ \E s \in Sessions : Index(r, s)
        \/ IndexGetPosts(r)
        \/ IndexRenderNoAwait(r)
        \/ \E name \in UserNamesNoAwait : Avatar(r, name)

SpecNoAwait == InitNoAwait /\ [][NextNoAwait]_vars

(* ----------------------------- properties ------------------------------ *)
UserExists(name) == \E i \in 1..Len(users) : users[i].username = name

\* C1 (SpecSeq): with requests handled one at a time, a POST /like/:id from a
\* logged-in session for a stored post goes through updatePostLikes, no step
\* before its UPDATE changes the posts table, and its UPDATE leaves the table
\* as it was except that this post's like count is one higher.
C1_LikeAddsExactlyOne ==
    [][\A r \in Slots :
        /\ \A s \in Sessions, id \in PostIds :
              (Like(r, s, id) /\ session[s].loggedIn /\ id \in DOMAIN posts)
                  => /\ req'[r].pc = "like_get"
                     /\ req'[r].id = id
                     /\ posts' = posts
        /\ (req[r].pc = "like_get" /\ req[r].session.loggedIn /\ req[r].id \in DOMAIN posts)
              => /\ req'[r].pc = "like_run"
                 /\ req'[r].id = req[r].id
                 /\ req'[r].session = req[r].session
                 /\ posts' = posts
        /\ (req[r].pc = "like_run" /\ req[r].session.loggedIn /\ req[r].id \in DOMAIN posts)
              => /\ req'[r].pc = "idle"
                 /\ posts' = [posts EXCEPT ![req[r].id].likes = @ + 1]
    ]_vars

\* a second like of the same post has completed
C1_Witness ==
    /\ sent.route = "like"
    /\ sent.error = NoError
    /\ \E id \in DOMAIN posts : posts[id].likes = 2

\* C2: a step removes a post only as the DELETE of a POST /delete/:id for
\* that id whose session, as it was when the request arrived, was logged in
\* with the username of the post's author; it removes that post only and
\* leaves the other posts as they were.
C2_DeleteOnlyByAuthor ==
    [][\A id \in DOMAIN posts :
        id \notin DOMAIN posts'
            => /\ \E r \in Slots :
                    /\ req[r].pc = "delete_run"
                    /\ req'[r].pc = "idle"
                    /\ req[r].id = id
                    /\ req[r].session.loggedIn
                    /\ req[r].session.username = posts[id].username
               /\ DOMAIN posts' = DOMAIN posts \ {id}
               /\ \A j \in DOMAIN posts' : posts'[j] = posts[j]
    ]_vars

\* a post has just been deleted
C2_Witness ==
    /\ sent.route = "delete"
    /\ sent.resp = Home
    /\ \E id \in 1..postSeq : id \notin DOMAIN posts

\* what every step in which a POST /register arrives does: it answers the
\* request or lets it go on to addUser
RegisterArrives ==
    /\ issued' = issued + 1
    /\ \/ sent'.route = "register"
       \/ \E r \in Slots : req[r].pc = "idle" /\ req'[r].pc = "register_addUser"

\* C3: POST /register with a username that is in the users table leaves the
\* table unchanged and is answered at once with the redirect to
\* /register?error=Already%20Registered.
C3_DuplicateRejected ==
    [][RegisterArrives
        => \A r \in Slots, name \in UserNames :
              (UserExists(name) /\ Register(r, name))
                  => /\ users' = users
                     /\ req'[r].pc = "idle"
                     /\ sent' = [route |-> "register", resp |-> AlreadyRegistered,
                                 error |-> NoError]
    ]_vars

\* a registration has just been answered with Already Registered
C3_Witness == sent.route = "register" /\ sent.resp = AlreadyRegistered

\* what every step in which a POST /login arrives does: it answers the
\* request or lets it go on to loginUser
LoginArrives ==
    /\ issued' = issued + 1
    /\ \/ sent'.route = "login"
       \/ \E r \in Slots : req[r].pc = "idle" /\ req'[r].pc = "login_loginUser"

\* C4: POST /login with a username that is not in the users table leaves
\* every session unchanged and is answered at once with the redirect to
\* /login?error=Not%20Found.
C4_UnknownLoginRejected ==
    [][LoginArrives
        => \A r \in Slots, s \in Sessions, name \in UserNames :
              (~UserExists(name) /\ Login(r, s, name))
                  => /\ session' = session
                     /\ req'[r].pc = "idle"
                     /\ sent' = [route |-> "login", resp |-> NotFound,
                                 error |-> NoError]
    ]_vars

\* a login has just been answered with Not Found
C4_Witness == sent.route = "login" /\ sent.resp = NotFound

\* C5: a step that stores a new post is the INSERT of a POST /posts; the
\* stored row has the title and content submitted, the username the
\* session was logged in with when the request arrived, and zero likes.
C5_NewPostAttributed ==
    [][\A id \in DOMAIN posts' :
        id \notin DOMAIN posts
            => \E r \in Slots :
                  /\ req[r].pc = "posts_addPost"
                  /\ req'[r].pc = "idle"
                  /\ req[r].session.loggedIn
                  /\ posts'[id].username = req[r].session.username
                  /\ posts'[id].title = req[r].title
                  /\ posts'[id].content = req[r].content
                  /\ posts'[id].likes = 0
    ]_vars

\* a post has just been created
C5_Witness ==
    /\ sent.route = "posts"
    /\ sent.error = NoError
    /\ postSeq \in DOMAIN posts
    /\ postSeq > 2

\* C6: the like count of a stored post is never lower after a step than it
\* was before it.
C6_LikesNeverDecrease ==
    [][\A id \in DOMAIN posts :
        id \in DOMAIN posts' => posts'[id].likes >= posts[id].likes
    ]_vars

\* C7: no two rows of the users table have the same username.
C7_UsernamesUnique ==
    \A i, j \in 1..Len(users) :
        i # j => users[i].username # users[j].username

\* a POST /register that found its username free is about to insert it, and
\* another request has inserted that username in the meantime
C7_Witness ==
    \E r \in Slots :
        /\ req[r].pc = "register_addUser"
        /\ UserExists(req[r].name)

\* C8: the author username of every stored post is the username of a row of
\* the users table.
C8_AuthorExists == \A id \in DOMAIN posts : UserExists(posts[id].username)

\* a post written by a user who registered after start-up is stored
C8_Witness ==
    \E id \in DOMAIN posts : \E i \in 3..Len(users) :
        posts[id].username = users[i].username

\* C9: a step changes the posts table only as the last step of a POST
\* /posts, POST /like/:id or POST /delete/:id whose session was logged in
\* when the request arrived; no request of a session that was logged out on
\* arrival changes the table.
C9_OnlyLoggedInChangePosts ==
    [][posts' # posts
        => \E r \in Slots :
              /\ req[r].pc \in {"posts_addPost", "like_run", "delete_run"}
              /\ req'[r].pc = "idle"
              /\ req[r].session.loggedIn
    ]_vars

\* a POST /posts with title and content, from a session that was logged out
\* when it arrived, has reached its INSERT
C9_Witness ==
    \E r \in Slots :
        /\ req[r].pc = "posts_addPost"
        /\ ~req[r].session.loggedIn
        /\ req[r].title # Undefined
        /\ req[r].content # Undefined

\* the redirects that carry an error
ErrorRedirects == {ErrorPage, AlreadyRegistered, NotFound, InternalServerError}

\* C10: a request in which a database statement failed is answered with an
\* error redirect.
C10_FailureGivesErrorRedirect ==
    sent.error = ConstraintError => sent.resp \in ErrorRedirects

\* C11: no step changes or removes a row of the users table: every row that
\* exists before a step (register, login, logout, post, like, delete,
\* profile, avatar, home) is there after it with the same id, username,
\* hashedGoogleId, avatar_url and memberSince
C11_UserRowsNeverChange ==
    [][/\ Len(users') >= Len(users)
       /\ \A i \in 1..Len(users) : users'[i] = users[i]]_vars

\* a user registered after start-up, and later GET /avatar for that user
C11_Witness ==
    /\ Len(users) > Len(SampleUsers)
    /\ sent.route = "avatar"
    /\ sent.name = users[Len(users)].username

\* C12: a stored post changes only in its like count, and only in the step
\* in which a POST /like/:id request for that post's own id writes it: id,
\* title, content, username and timestamp stay as they were created
C12_PostChangesOnlyByLike ==
    [][\A id \in DOMAIN posts \cap DOMAIN posts' :
          /\ posts'[id] = [posts[id] EXCEPT !.likes = posts'[id].likes]
          /\ posts'[id].likes # posts[id].likes
                => \E r \in Slots : /\ req[r].pc = "like_run"
                                     /\ req[r].id = id
                                     /\ req'[r].pc = "idle"]_vars

\* a like has been written to one post while another post is still unliked
C12_Witness ==
    /\ sent.route = "like"
    /\ sent.error = NoError
    /\ \E id, other \in DOMAIN posts : posts[id].likes > 0 /\ posts[other].likes = 0

\* the ids of the stored posts are pairwise different, each row is stored
\* under its own id, and none exceeds the largest id handed out so far
PostIdsUnique ==
    /\ \A i, j \in DOMAIN posts : i # j => posts[i].id # posts[j].id
    /\ \A i \in DOMAIN posts : posts[i].id = i /\ i <= postSeq

\* a post that appears in a step gets an id larger than every id handed out
\* before; the like or delete statement of a request changes no post but the
\* one whose id the request names
PostIdsFresh ==
    /\ postSeq' >= postSeq
    /\ \A id \in DOMAIN posts' \ DOMAIN posts : id > postSeq
    /\ \A r \in Slots :
          req[r].pc \in {"like_run", "delete_run"} /\ req'[r].pc = "idle"
             => \A id \in DOMAIN posts \ {req[r].id} :
                   id \in DOMAIN posts' /\ posts'[id] = posts[id]

\* C13: post ids are unique and generated: no two stored posts share an id,
\* the id of a deleted post is never given to a later post, and a like or
\* delete request for a deleted post's id touches no other post
C13_PostIdsNeverReused == []PostIdsUnique /\ [][PostIdsFresh]_vars

\* a post has been created after another post was deleted
C13_Witness ==
    /\ sent.route = "posts"
    /\ sent.error = NoError
    /\ postSeq \in DOMAIN posts
    /\ \E id \in 1..postSeq : id \notin DOMAIN posts

\* C14: every stored avatar is 100 by 100, and the response of
\* GET /avatar/:username for a registered username has content type
\* image/png and carries the avatar stored in that user's row
C14_AvatarIsStoredPng ==
    /\ \A i \in 1..Len(users) :
          users[i].avatar_url.width = 100 /\ users[i].avatar_url.height = 100
    /\ sent.route = "avatar" /\ UserExists(sent.name)
          => /\ sent.type = "image/png"
             /\ \E i \in 1..Len(users) :
                   /\ users[i].username = sent.name
                   /\ sent.body = users[i].avatar_url
                   /\ sent.body.width = 100
                   /\ sent.body.height = 100

\* GET /avatar/AnotherUser has been answered with the avatar showing an A
C14_Witness ==
    /\ sent.route = "avatar"
    /\ sent.name = "AnotherUser"
    /\ sent.body = generateAvatar(65)

\* C15: no like is lost under interleaving: after k POST /like/:id requests
\* for a stored post have completed the count is k higher than before the
\* first started, that is, each request leaves the count one higher than it
\* was just before that request's own write
C15_LikesNotLost ==
    [][\A r \in Slots :
          /\ req[r].pc = "like_run"
          /\ req'[r].pc = "idle"
          /\ req[r].id \in DOMAIN posts
          => posts'[req[r].id].likes = posts[req[r].id].likes + 1]_vars

\* loggedIn is true exactly when userId and username are both set, and then
\* they are the id and the username of one row of the users table
SessionConsistent(sess) ==
    /\ sess.loggedIn <=> (sess.userId # NoId /\ sess.username # Undefined)
    /\ sess.loggedIn
          => /\ sess.userId \in 1..Len(users)
             /\ users[sess.userId].id = sess.userId
             /\ users[sess.userId].username = sess.username

\* a session changes only when a login for it succeeds or a logout runs;
\* a successful login leaves it holding the row of the name it logged in
\* with, GET /logout leaves all three fields cleared
SessionStep ==
    /\ \A s \in Sessions :
          session'[s] # session[s]
             => \/ sent'.route = "logout" /\ ~session'[s].loggedIn
                \/ \E r \in Slots : /\ req[r].pc = "login_loginUser"
                                     /\ req'[r].pc = "idle"
                                     /\ req[r].sess = s
    /\ \A r \in Slots :
          /\ req[r].pc = "login_loginUser"
          /\ req'[r].pc = "idle"
          /\ UserExists(req[r].name)
          => /\ session'[req[r].sess].loggedIn
             /\ session'[req[r].sess].username = req[r].name
             /\ users[session'[req[r].sess].userId].username = req[r].name
    /\ sent'.route = "logout"
          => \A r \in Slots, s \in Sessions :
                Logout(r, s)
                   => session'[s] = [userId |-> NoId, loggedIn |-> FALSE,
                                     username |-> Undefined]

\* C16: in every state each session, and each copy of it a request works
\* on, has loggedIn true exactly when userId and username are set, naming
\* one existing user row, the one of the session's latest successful login;
\* after GET /logout the three fields are cleared
C16_SessionConsistent ==
    /\ [](\A s \in Sessions : SessionConsistent(session[s]))
    /\ [](\A r \in Slots : SessionConsistent(req[r].session))
    /\ [][SessionStep]_vars

\* one session has just been logged out while the other is logged in as
\* AnotherUser
C16_Witness ==
    /\ sent.route = "logout"
    /\ \E s, t \in Sessions :
          /\ session[s].loggedIn /\ session[s].username = "AnotherUser"
          /\ ~session[t].loggedIn

\* C17: what getPosts returns holds every stored post exactly once, latest
\* first: of any two rows the one created later (the larger id) comes first
C17_GetPostsLatestFirst ==
    [][\A r \in Slots :
          req[r].pc = "index_getPosts" /\ req'[r].pc = "index_getCurrentUser"
          => LET rows == req'[r].rows
             IN  /\ Len(rows) = Cardinality(DOMAIN posts)
                 /\ \A id \in DOMAIN posts :
                       \E i \in 1..Len(rows) : rows[i] = posts[id]
                 /\ \A i, j \in 1..Len(rows) :
                       i < j => rows[i].id > rows[j].id]_vars

\* a letter: a-z or A-Z
IsLetter(c) == (c >= 97 /\ c <= 122) \/ (c >= 65 /\ c <= 90)

\* C18: getFirstLetter returns the first letter (a-z or A-Z) occurring in the
\* username, returns 'A' when the username holds no letter, and never
\* returns a character that is not a letter
C18_FirstLetterIsALetter ==
    firstLetter # NotCalled
       => /\ IsLetter(firstLetter)
          /\ \A i \in 1..Len(nameChars) :
                /\ IsLetter(nameChars[i])
                /\ \A j \in 1..(i - 1) : ~IsLetter(nameChars[j])
                => firstLetter = nameChars[i]
          /\ (\A i \in 1..Len(nameChars) : ~IsLetter(nameChars[i]))
                => firstLetter = 65

\* C19 (SpecNoAwait): in the variant, POST /login with a username that is
\* not in the users table is answered with the redirect to
\* /login?error=Not%20Found and does not turn the session's loggedIn to true
C19_NoAwaitUnknownLoginRejected ==
    [][sent'.route = "login" /\ issued' = issued + 1
        => \A r \in Slots, s \in Sessions, name \in UserNamesNoAwait :
              (~UserExists(name) /\ LoginNoAwait(r, s, name))
                  => /\ sent'.resp = NotFound
                     /\ session'[s].loggedIn => session[s].loggedIn
    ]_vars

====
